---- MODULE Spec2Model ----
(***************************************************************************)
(* A model of io_export_usdz/export_usdz.py: the Blender scene to USDA /   *)
(* USDZ exporter.  The module holds several specifications over one set    *)
(* of variables; each specification drives one part of the exporter:       *)
(*                                                                         *)
(*   SpecFrames     the three frame-sampling routines against the host's   *)
(*                  current frame, with host calls that may fail           *)
(*   Spec           export_usdz / exportUSD: the stages of one export run, *)
(*                  the temp directory and the files written               *)
(*   SpecObjects    exportObjects and the object forest writeUSDA prints   *)
(*   SpecMaterials  exportMaterials beside the material bindings of the    *)
(*                  mesh records                                           *)
(*   SpecMesh       exportMeshes: topology, indexed normals and UVs        *)
(*   SpecJoints     exportJointTokens over a bone hierarchy                *)
(*   SpecFormat     printTuple and the reading back of its literals        *)
(*   SpecBake       bakeAO and the images of the host                      *)
(*   SpecArchive    writeUSDZ: the arguments handed to usdzip              *)
(*   SpecWeights    getVertexWeights and the joint arrays printMesh prints *)
(*                                                                         *)
(* Variables that a specification does not drive keep their initial value. *)
(***************************************************************************)
EXTENDS Integers, Sequences, FiniteSets, TLC

(***************************************************************************)
(* Bounds of the model.                                                    *)
(***************************************************************************)
MaxFrame == 3

None == "None"

\* "No object": the value of a parent or of the active object that is None.
NoObject == 0

VARIABLES
    \* --- host timeline and the options the sampling routines read
    frame_current,     \* bpy.context.scene.frame_current
    startTimeCode,     \* options['startTimeCode']
    endTimeCode,       \* options['endTimeCode']
    animated,          \* options['animated']
    \* --- one call of a frame-sampling routine (SpecFrames)
    fpc,               \* "idle" | "returned" | "raised"
    routine,           \* the routine that was called last
    originalFrame,     \* the routine's local originalFrame
    samples            \* the frames of the samples collected by the call

hostVars == <<frame_current, startTimeCode, endTimeCode, animated>>

samplingVars == <<fpc, routine, originalFrame, samples>>

VARIABLES
    \* --- one call of export_usdz (Spec)
    filepath,          \* the filepath argument, a sequence of characters
    selected_objects,  \* context.selected_objects, a list of object ids
    active_object,     \* context.active_object, an object id or NoObject
    keepUSDA,          \* the keepUSDA argument
    ppc,               \* the stage the run is at
    objs,              \* the list organizeObjects returned
    tempDir,           \* "absent" | "exists" | "removed"
    tempPath,          \* options['tempPath']: None | "base" | "temp"
    files,             \* the files written so far, as <<directory, kind>>
    archiverRuns,      \* how often the archiver command was started
    hostTouched,       \* whether the run selected, copied or moved anything
    result,            \* the value export_usdz returned, or None
    raised             \* the exception that left export_usdz, or None

callVars == <<filepath, selected_objects, active_object, keepUSDA>>

pipeVars == <<ppc, objs, tempDir, tempPath, files, archiverRuns, hostTouched,
              result, raised>>

VARIABLES
    \* --- the scene and one run of exportObjects + writeUSDA (SpecObjects)
    objType,           \* obj.type of every scene object
    objParent,         \* obj.parent of every scene object, or NoObject
    callerAnimated,    \* the animated argument the caller passed
    exportMaterialsOpt, \* options['exportMaterials']
    opc,               \* "scan" | "linked" | "written"
    scanned,           \* the objects of objs the for loop has visited, in order
    objMap,            \* exportObjects' objMap: the records in insertion order
    objects,           \* the keys of the root records exportObjects returns
    document           \* the parts of the document writeUSDA has written, in order

sceneVars == <<objType, objParent, callerAnimated, exportMaterialsOpt>>

objectVars == <<opc, scanned, objMap, objects, document>>

VARIABLES
    \* --- one run of exportMaterials, beside the mesh records that
    \*     exportMeshes produces for the same objects (SpecMaterials)
    bakeAOopt,         \* options['bakeAO']
    mpc,               \* "scan" | "returned" | "raised"
    materialNames,     \* exportMaterials' set materialNames
    materials,         \* exportMaterials' list materials
    meshMaterials,     \* mesh['material'] of the mesh records of the objects
    encounterOrder     \* the materials met in the slots, in order of first meeting

materialVars == <<bakeAOopt, mpc, materialNames, materials,
                  meshMaterials, encounterOrder>>

VARIABLES
    \* --- one call of exportMeshes and a second extraction from its output
    \*     (SpecMesh)
    meshData,          \* objCopy.data once the UV map is there (line 214)
    multiMat,          \* exportMeshes' multiMat
    gpc,               \* "export" | "exported" | "reextracted"
    pieces,            \* the data of exportMeshes' objs, in order
    meshes,            \* the list of mesh records exportMeshes returns
    reUVs,             \* getIndexedUVs run again on each record's uvs
    reNormals          \* getIndexedNormals run again on each record's normals

meshVars == <<meshData, multiMat, gpc, pieces, meshes, reUVs, reNormals>>

VARIABLES
    \* --- one call of exportJointTokens (SpecJoints)
    bones,             \* arm.data.bones: name and parent of every bone
    jpc,               \* "call" | "returned"
    jointTokens        \* the list exportJointTokens returned

jointVars == <<bones, jpc, jointTokens>>

VARIABLES
    \* --- one tuple through printTuple and back through a parser of the
    \*     literal (SpecFormat)
    tupleIn,           \* the tuple t given to printTuple
    tpc,               \* "call" | "printed" | "parsed"
    literals,          \* the comma-separated literals of the printed string
    parsed             \* the numbers a reader of the string gets

formatVars == <<tupleIn, tpc, literals, parsed>>

VARIABLES
    \* --- one call of bakeAO (SpecBake)
    hasUVTexture,      \* len(obj.data.uv_textures) > 0
    uvFaces,           \* d.image of every d in obj.data.uv_textures[0].data
    images,            \* the names of the images of bpy.data.images
    img,               \* bakeAO's local img, or None
    bpc,               \* "call" | "created" | "assigned" | "baked" | "saved"
                       \* | "returned" | "raised"
    bakeResult         \* what bakeAO returned: "file" or None

bakeVars == <<hasUVTexture, uvFaces, images, img, bpc, bakeResult>>

VARIABLES
    \* --- one call of writeUSDZ (SpecArchive)
    archMaterials,     \* the materials argument: the list of records
    archExportMaterials, \* options['exportMaterials']
    apc,               \* "call" | "run"
    archArgs           \* the args handed to subprocess.run

archiveVars == <<archMaterials, archExportMaterials, apc, archArgs>>

VARIABLES
    \* --- the skinning weights of one mesh, from getVertexWeights to the
    \*     arrays printMesh writes (SpecWeights)
    weightTable,       \* group.weight(i) for every vertex i and vertex group
    wpc,               \* "call" | "extracted" | "printed"
    vertexWeights,     \* mesh['weights']: whether it is a list, and the list
    jointIndices,      \* the array of primvars:skel:jointIndices
    jointWeights       \* the array of primvars:skel:jointWeights

weightVars == <<weightTable, wpc, vertexWeights, jointIndices, jointWeights>>

vars == <<hostVars, samplingVars, callVars, pipeVars, sceneVars, objectVars,
          materialVars, meshVars, jointVars, formatVars, bakeVars,
          archiveVars, weightVars>>

(***************************************************************************)
(* The variables of the parts a specification does not drive: their value  *)
(* at the start, and the conjunct that keeps them.                         *)
(***************************************************************************)
\* The host and the options as a specification that does not sample leaves them.
HostOff ==
    /\ frame_current = 0
    /\ startTimeCode = 0
    /\ endTimeCode = 0
    /\ animated = FALSE

SamplingOff ==
    /\ fpc = "off"
    /\ routine = None
    /\ originalFrame = 0
    /\ samples = <<>>

PipeOff ==
    /\ filepath = <<>>
    /\ selected_objects = <<>>
    /\ active_object = NoObject
    /\ keepUSDA = FALSE
    /\ ppc = "off"
    /\ objs = <<>>
    /\ tempDir = "absent"
    /\ tempPath = None
    /\ files = {}
    /\ archiverRuns = 0
    /\ hostTouched = FALSE
    /\ result = None
    /\ raised = None

ObjectsOff ==
    /\ objType = <<>>
    /\ objParent = <<>>
    /\ callerAnimated = FALSE
    /\ exportMaterialsOpt = FALSE
    /\ opc = "off"
    /\ scanned = <<>>
    /\ objMap = <<>>
    /\ objects = <<>>
    /\ document = <<>>

MaterialsOff ==
    /\ bakeAOopt = FALSE
    /\ mpc = "off"
    /\ materialNames = {}
    /\ materials = <<>>
    /\ meshMaterials = {}
    /\ encounterOrder = <<>>

MeshOff ==
    /\ meshData = <<>>
    /\ multiMat = FALSE
    /\ gpc = "off"
    /\ pieces = <<>>
    /\ meshes = <<>>
    /\ reUVs = <<>>
    /\ reNormals = <<>>

JointsOff ==
    /\ bones = <<>>
    /\ jpc = "off"
    /\ jointTokens = <<>>

FormatOff ==
    /\ tupleIn = <<>>
    /\ tpc = "off"
    /\ literals = <<>>
    /\ parsed = <<>>

BakeOff ==
    /\ hasUVTexture = FALSE
    /\ uvFaces = <<>>
    /\ images = {}
    /\ img = None
    /\ bpc = "off"
    /\ bakeResult = None

ArchiveOff ==
    /\ archMaterials = <<>>
    /\ archExportMaterials = FALSE
    /\ apc = "off"
    /\ archArgs = <<>>

WeightsOff ==
    /\ weightTable = <<>>
    /\ wpc = "off"
    /\ vertexWeights = <<>>
    /\ jointIndices = <<>>
    /\ jointWeights = <<>>

\* What the actions of SpecFrames leave alone.
OnlyFrames ==
    UNCHANGED <<callVars, pipeVars, sceneVars, objectVars, materialVars,
                meshVars, jointVars, formatVars, bakeVars, archiveVars,
                weightVars>>

\* What the actions of Spec leave alone.
OnlyPipe ==
    UNCHANGED <<callVars, hostVars, samplingVars, sceneVars, objectVars,
                materialVars, meshVars, jointVars, formatVars, bakeVars,
                archiveVars, weightVars>>

\* What the actions of SpecObjects leave alone.
OnlyObjects ==
    UNCHANGED <<callVars, pipeVars, samplingVars, sceneVars, materialVars,
                meshVars, jointVars, formatVars, bakeVars, archiveVars,
                weightVars>>

\* What the actions of SpecMaterials leave alone.
OnlyMaterials ==
    UNCHANGED <<callVars, pipeVars, hostVars, samplingVars, sceneVars,
                objectVars, meshVars, jointVars, formatVars, bakeVars,
                archiveVars, weightVars>>

\* What the actions of SpecMesh leave alone.
OnlyMesh ==
    UNCHANGED <<callVars, pipeVars, hostVars, samplingVars, sceneVars,
                objectVars, materialVars, jointVars, formatVars, bakeVars,
                archiveVars, weightVars>>

\* What the actions of SpecJoints leave alone.
OnlyJoints ==
    UNCHANGED <<callVars, pipeVars, hostVars, samplingVars, sceneVars,
                objectVars, materialVars, meshVars, formatVars, bakeVars,
                archiveVars, weightVars>>

\* What the actions of SpecFormat leave alone.
OnlyFormat ==
    UNCHANGED <<hostVars, samplingVars, callVars, pipeVars, sceneVars,
                objectVars, materialVars, meshVars, jointVars, bakeVars,
                archiveVars, weightVars>>

\* What the actions of SpecBake leave alone.
OnlyBake ==
    UNCHANGED <<hostVars, samplingVars, callVars, pipeVars, sceneVars,
                objectVars, materialVars, meshVars, jointVars, formatVars,
                archiveVars, weightVars>>

\* What the actions of SpecArchive leave alone.
OnlyArchive ==
    UNCHANGED <<hostVars, samplingVars, callVars, pipeVars, sceneVars,
                objectVars, materialVars, meshVars, jointVars, formatVars,
                bakeVars, weightVars>>

\* What the actions of SpecWeights leave alone.
OnlyWeights ==
    UNCHANGED <<hostVars, samplingVars, callVars, pipeVars, sceneVars,
                objectVars, materialVars, meshVars, jointVars, formatVars,
                bakeVars, archiveVars>>

(***************************************************************************)
(* Frame sampling: exportSkelAnimation, exportRootTimeSamples,             *)
(* exportLocalTimeSamples.                                                 *)
(***************************************************************************)

\* range(frame_begin, frame_end+1) as a sequence; empty when e < s.
FrameRange(s, e) == [i \in 1..(e - s + 1) |-> s + i - 1]

\* A host call of the loop that raises: frame_set(frame), the per-frame
\* sample read at frame, or the restoring frame_set(originalFrame).
NoFail == [at |-> "none", frame |-> 0]

FailPoints(s, e) ==
    {NoFail}
        \cup {[at |-> a, frame |-> f] : a \in {"frame_set", "sample"}, f \in s..e}
        \cup {[at |-> "restore", frame |-> 0]}

\* The frame the host is at when the loop reaches frame f's frame_set.
FrameBefore(cur, s, f) == IF f = s THEN cur ELSE f - 1

\* The common loop of the three routines:
\*     originalFrame = frame_current
\*     for frame in range(s, e+1): frame_set(frame); samples.append(...)
\*     frame_set(originalFrame)
\* No try/finally surrounds the loop: a raising host call leaves the routine
\* at once.  A frame_set that raises may or may not have moved the host's
\* frame already (moved).
SampleLoop(cur, s, e, fail, moved) ==
    CASE fail.at = "none" ->
            [status |-> "returned", frame |-> cur, frames |-> FrameRange(s, e)]
      [] fail.at = "frame_set" ->
            [status |-> "raised",
             frame  |-> IF moved THEN fail.frame ELSE FrameBefore(cur, s, fail.frame),
             frames |-> FrameRange(s, fail.frame - 1)]
      [] fail.at = "sample" ->
            [status |-> "raised", frame |-> fail.frame,
             frames |-> FrameRange(s, fail.frame - 1)]
      [] OTHER ->
            [status |-> "raised",
             frame  |-> IF moved THEN cur ELSE FrameBefore(cur, s, e + 1),
             frames |-> FrameRange(s, e)]

exportRootTimeSamples(cur, s, e, fail, moved) == SampleLoop(cur, s, e, fail, moved)

exportLocalTimeSamples(cur, s, e, fail, moved) == SampleLoop(cur, s, e, fail, moved)

\* exportSkelAnimation samples rotations, scales and translations in one
\* loop, so the three tables carry the same frames.
exportSkelAnimation(cur, s, e, fail, moved) == SampleLoop(cur, s, e, fail, moved)

InitFrames ==
    /\ frame_current \in 0..MaxFrame
    /\ startTimeCode \in 0..MaxFrame
    /\ endTimeCode \in 0..MaxFrame
    /\ animated \in BOOLEAN
    /\ fpc = "idle"
    /\ routine = None
    /\ originalFrame = frame_current
    /\ samples = <<>>

CallSampling(name, out) ==
    /\ fpc = "idle"
    /\ routine' = name
    /\ originalFrame' = frame_current
    /\ frame_current' = out.frame
    /\ samples' = out.frames
    /\ fpc' = out.status
    /\ UNCHANGED <<startTimeCode, endTimeCode>>
    /\ OnlyFrames

CallExportSkelAnimation ==
    \E fail \in FailPoints(startTimeCode, endTimeCode), moved \in BOOLEAN :
        /\ CallSampling("exportSkelAnimation",
               exportSkelAnimation(frame_current, startTimeCode, endTimeCode, fail, moved))
        /\ animated' = TRUE

CallExportRootTimeSamples ==
    \E fail \in FailPoints(startTimeCode, endTimeCode), moved \in BOOLEAN :
        /\ CallSampling("exportRootTimeSamples",
               exportRootTimeSamples(frame_current, startTimeCode, endTimeCode, fail, moved))
        /\ UNCHANGED animated

CallExportLocalTimeSamples ==
    \E fail \in FailPoints(startTimeCode, endTimeCode), moved \in BOOLEAN :
        /\ CallSampling("exportLocalTimeSamples",
               exportLocalTimeSamples(frame_current, startTimeCode, endTimeCode, fail, moved))
        /\ UNCHANGED animated

\* The caller takes the result (or the exception); the host keeps its frame.
SamplingDone ==
    /\ fpc \in {"returned", "raised"}
    /\ fpc' = "idle"
    /\ routine' = None
    /\ originalFrame' = frame_current
    /\ samples' = <<>>
    /\ UNCHANGED <<frame_current, startTimeCode, endTimeCode, animated>>
    /\ OnlyFrames

NextFrames ==
    \/ CallExportSkelAnimation
    \/ CallExportRootTimeSamples
    \/ CallExportLocalTimeSamples
    \/ SamplingDone

(***************************************************************************)
(* export_usdz and exportUSD: one export run, stage by stage.              *)
(***************************************************************************)
MaxPathLen == 3
MaxSelected == 2

PathChars == {"a", ".", "/"}

RECURSIVE SeqsUpTo(_, _)
\* The sequences over S of length at most n.
SeqsUpTo(S, n) ==
    IF n = 0 THEN {<<>>}
    ELSE LET shorter == SeqsUpTo(S, n - 1)
         IN shorter \cup {Append(q, x) : q \in shorter, x \in S}

\* The lists without repetition (a selection lists an object once).
IsInjective(q) == \A i, j \in 1..Len(q) : q[i] = q[j] => i = j

Range(q) == {q[i] : i \in 1..Len(q)}

\* os.path.split(p)[1]: what follows the last '/'.
PathTail(p) ==
    LET slashes == {i \in 1..Len(p) : p[i] = "/"}
        last    == IF slashes = {} THEN 0
                   ELSE CHOOSE i \in slashes : \A j \in slashes : j <= i
    IN SubSeq(p, last + 1, Len(p))

RECURSIVE StrSplit(_, _)
\* str.split(c): the pieces of s between the occurrences of c.
StrSplit(s, c) ==
    LET hits == {i \in 1..Len(s) : s[i] = c}
    IN IF hits = {} THEN <<s>>
       ELSE LET first == CHOOSE i \in hits : \A j \in hits : i <= j
            IN <<SubSeq(s, 1, first - 1)>> \o StrSplit(SubSeq(s, first + 1, Len(s)), c)

\* fileName, fileType = fileName.split('.') raises ValueError unless the
\* split yields exactly two pieces.
FileNameUnpacks(path) == Len(StrSplit(PathTail(path), ".")) = 2

\* organizeObjects(active, objs): objs.remove(active); [active] + objs.
\* list.remove raises ValueError when active is not in the list.
organizeObjects(active, sel) ==
    IF active \notin Range(sel) THEN [raised |-> "ValueError", objs |-> <<>>]
    ELSE [raised |-> None,
          objs   |-> <<active>> \o SelectSeq(sel, LAMBDA o : o # active)]

FINISHED == "FINISHED"

InitPipe ==
    /\ filepath \in SeqsUpTo(PathChars, MaxPathLen)
    /\ selected_objects \in {q \in SeqsUpTo(1..MaxSelected, MaxSelected) : IsInjective(q)}
    /\ active_object \in {NoObject} \cup (1..MaxSelected)
    /\ keepUSDA \in BOOLEAN
    /\ ppc = "export_usdz"
    /\ objs = <<>>
    /\ tempDir = "absent"
    /\ tempPath = None
    /\ files = {}
    /\ archiverRuns = 0
    /\ hostTouched = FALSE
    /\ result = None
    /\ raised = None

\* An exception leaves export_usdz: nothing catches it, nothing is undone.
Raise(exc) ==
    /\ ppc' = "raised"
    /\ raised' = exc

\* export_usdz up to the call of exportObjects: the file name is unpacked
\* first, then the selection is looked at; exportUSD begins with mkdtemp and
\* the choice of options['tempPath'].
EnterExportUsdz ==
    /\ ppc = "export_usdz"
    /\ IF ~FileNameUnpacks(filepath)
       THEN /\ Raise("ValueError")
            /\ UNCHANGED <<objs, tempDir, tempPath, result>>
       ELSE IF Len(selected_objects) > 0 /\ active_object # NoObject
       THEN LET org == organizeObjects(active_object, selected_objects)
            IN IF org.raised # None
               THEN /\ Raise(org.raised)
                    /\ UNCHANGED <<objs, tempDir, tempPath, result>>
               ELSE /\ objs' = org.objs
                    /\ tempDir' = "exists"
                    /\ tempPath' = IF ~keepUSDA THEN "temp" ELSE "base"
                    /\ ppc' = "exportObjects"
                    /\ UNCHANGED <<result, raised>>
       ELSE /\ ppc' = "finished"
            /\ result' = FINISHED
            /\ UNCHANGED <<objs, tempDir, tempPath, raised>>
    /\ UNCHANGED <<files, archiverRuns, hostTouched>>
    /\ OnlyPipe

\* objects = exportObjects(objs, options): copies, selects and deletes
\* objects and moves the timeline; a host operator may raise.
StageExportObjects ==
    /\ ppc = "exportObjects"
    /\ hostTouched' = TRUE
    /\ \/ ppc' = "exportMaterials" /\ UNCHANGED raised
       \/ Raise("RuntimeError")
    /\ UNCHANGED <<objs, tempDir, tempPath, files, archiverRuns, result>>
    /\ OnlyPipe

\* materials = exportMaterials(objs, options): may save texture files under
\* options['tempPath']; saving or baking may raise.
StageExportMaterials ==
    /\ ppc = "exportMaterials"
    /\ \/ /\ ppc' = "writeUSDA"
          /\ \E textures \in BOOLEAN :
                files' = IF textures THEN files \cup {<<tempPath, "png">>} ELSE files
          /\ UNCHANGED raised
       \/ Raise("RuntimeError") /\ UNCHANGED files
    /\ UNCHANGED <<objs, tempDir, tempPath, archiverRuns, hostTouched, result>>
    /\ OnlyPipe

\* writeUSDA: open(usdaFile, 'w'); f.write(src); f.close().
writeUSDA ==
    /\ ppc = "writeUSDA"
    /\ \/ /\ ppc' = "writeUSDZ"
          /\ files' = files \cup {<<tempPath, "usda">>}
          /\ UNCHANGED raised
       \/ Raise("OSError") /\ UNCHANGED files
    /\ UNCHANGED <<objs, tempDir, tempPath, archiverRuns, hostTouched, result>>
    /\ OnlyPipe

\* writeUSDZ: subprocess.run(args) without check: a non-zero exit status of
\* the archiver is not an exception; a command that cannot be started is.
writeUSDZ ==
    /\ ppc = "writeUSDZ"
    /\ \/ /\ ppc' = "rmtree"
          /\ archiverRuns' = archiverRuns + 1
          /\ \E exitOk \in BOOLEAN :
                files' = IF exitOk THEN files \cup {<<"base", "usdz">>} ELSE files
          /\ UNCHANGED raised
       \/ Raise("FileNotFoundError") /\ UNCHANGED <<files, archiverRuns>>
    /\ UNCHANGED <<objs, tempDir, tempPath, hostTouched, result>>
    /\ OnlyPipe

\* shutil.rmtree(tempDir), the last statement of exportUSD, then
\* return {'FINISHED'}.
CleanupAndReturn ==
    /\ ppc = "rmtree"
    /\ tempDir' = "removed"
    /\ files' = {f \in files : f[1] # "temp"}
    /\ ppc' = "finished"
    /\ result' = FINISHED
    /\ UNCHANGED <<objs, tempPath, archiverRuns, hostTouched, raised>>
    /\ OnlyPipe

NextPipe ==
    \/ EnterExportUsdz
    \/ StageExportObjects
    \/ StageExportMaterials
    \/ writeUSDA
    \/ writeUSDZ
    \/ CleanupAndReturn

(***************************************************************************)
(* exportObjects and the composer: the scene's objects are 1..MaxObjs,     *)
(* each with a type and a parent; objs is the selection in any order.      *)
(***************************************************************************)
MaxObjs == 3

ObjIds == 1..MaxObjs

ObjTypes == {"MESH", "EMPTY", "ARMATURE"}

\* The frames of a sampling routine's table when no host call fails.
SampledFrames(out) == out.frames

\* exportTimeSamples(obj, options)
exportTimeSamples(o, opt) ==
    IF opt /\ objType[o] # "ARMATURE"
    THEN IF objParent[o] = NoObject
         THEN SampledFrames(exportRootTimeSamples(frame_current, startTimeCode,
                                                  endTimeCode, NoFail, FALSE))
         ELSE IF objType[objParent[o]] # "ARMATURE"
         THEN SampledFrames(exportLocalTimeSamples(frame_current, startTimeCode,
                                                   endTimeCode, NoFail, FALSE))
         ELSE <<>>
    ELSE <<>>

ParentIsArmature(o) ==
    objParent[o] # NoObject /\ objType[objParent[o]] = "ARMATURE"

\* object['parent']: the parent's name unless the parent is an armature.
RecordParent(o) ==
    IF objParent[o] # NoObject /\ objType[objParent[o]] # "ARMATURE"
    THEN objParent[o] ELSE NoObject

NoAnimation == [present |-> FALSE, frames |-> <<>>]

\* exportAnimation that returns None for every object.
exportNoAnimation(o) == NoAnimation

\* exportAnimation(obj, options): exportSkelAnimation for the child of an
\* armature, else None.
exportAnimation(o) ==
    IF ParentIsArmature(o)
    THEN [present |-> TRUE,
          frames  |-> SampledFrames(exportSkelAnimation(frame_current, startTimeCode,
                                                        endTimeCode, NoFail, FALSE))]
    ELSE NoAnimation

\* options['animated'] after exportObject(obj): exportSkelAnimation sets it.
AnimatedAfter(o, opt) == opt \/ ParentIsArmature(o)

\* exportObject(obj, options); timeSamples are taken after exportAnimation.
exportObject(o, opt) ==
    [key         |-> o,
     meshes      |-> <<o>>,
     skeleton    |-> ParentIsArmature(o),
     animation   |-> exportAnimation(o),
     parent      |-> RecordParent(o),
     children    |-> <<>>,
     timeSamples |-> exportTimeSamples(o, AnimatedAfter(o, opt))]

\* exportEmpty(obj, options)
exportEmpty(o, opt) ==
    [key         |-> o,
     meshes      |-> <<>>,
     skeleton    |-> FALSE,
     animation   |-> NoAnimation,
     parent      |-> RecordParent(o),
     children    |-> <<>>,
     timeSamples |-> exportTimeSamples(o, opt)]

\* name in objMap; objMap[name]; objMap[name] = record (a dict keeps the
\* place of a key that is assigned again).
MapHas(map, k) == \E i \in 1..Len(map) : map[i].key = k

MapIndex(map, k) == CHOOSE i \in 1..Len(map) : map[i].key = k

MapPut(map, k, rec) ==
    IF MapHas(map, k) THEN [map EXCEPT ![MapIndex(map, k)] = rec]
    ELSE Append(map, rec)

\* The walk up the parents that adds no record.
AddNoAncestors(map, p, opt) == map

RECURSIVE AddAncestors(_, _, _)
\* while parent != None and parent.type != 'ARMATURE': add an exportEmpty
\* record for a parent not yet in objMap; parent = parent.parent
AddAncestors(map, p, opt) ==
    IF p = NoObject \/ objType[p] = "ARMATURE" THEN map
    ELSE AddAncestors(IF MapHas(map, p) THEN map ELSE Append(map, exportEmpty(p, opt)),
                      objParent[p], opt)

\* One iteration of "for obj in objs" in exportObjects.
ScanBody(map, o, opt) ==
    IF objType[o] = "MESH"
    THEN AddAncestors(MapPut(map, o, exportObject(o, opt)), objParent[o],
                      AnimatedAfter(o, opt))
    ELSE map

RECURSIVE LinkChildren(_, _)
\* for name, object in objMap.items(): append the record to its parent's
\* children.  A parent that is no key of objMap is a KeyError.
LinkChildren(map, i) ==
    IF i > Len(map) THEN [raised |-> None, map |-> map]
    ELSE IF map[i].parent = NoObject THEN LinkChildren(map, i + 1)
    ELSE IF ~MapHas(map, map[i].parent) THEN [raised |-> "KeyError", map |-> map]
    ELSE LET j == MapIndex(map, map[i].parent)
         IN LinkChildren([map EXCEPT ![j].children = Append(@, map[i].key)], i + 1)

\* objects: the records without a parent, in objMap order.
Roots(map) ==
    LET roots == SelectSeq(map, LAMBDA r : r.parent = NoObject)
    IN [i \in 1..Len(roots) |-> roots[i].key]

TimeTable(name, frames) == [name |-> name, frames |-> frames]

\* printMeshes(obj['meshes'], ...)
printMeshes(rec) ==
    [i \in 1..Len(rec.meshes) |-> [prim |-> "Mesh", obj |-> rec.meshes[i], tables |-> <<>>]]

\* printSkinnedObject: the meshes, the skeleton, the animation; the children
\* of the record are not printed.
printSkinnedObject(rec) ==
    <<[prim |-> "SkelRoot", obj |-> rec.key, tables |-> <<>>]>>
        \o printMeshes(rec)
        \o <<[prim |-> "Skeleton", obj |-> rec.key, tables |-> <<>>],
             [prim |-> "SkelAnimation", obj |-> rec.key,
              tables |-> <<TimeTable("rotations", rec.animation.frames),
                           TimeTable("scales", rec.animation.frames),
                           TimeTable("translations", rec.animation.frames)>>]>>

RECURSIVE printObjects(_, _, _)
\* printObjects(objs, options, indent) with printRigidObject inlined: the
\* Xform with its time-sampled table when options['animated'] is set at the
\* time of writing, else its constant matrix; then its children, then its
\* meshes.
printObjects(map, keys, opt) ==
    IF keys = <<>> THEN <<>>
    ELSE LET rec == map[MapIndex(map, Head(keys))]
             this ==
                 IF ~rec.skeleton
                 THEN <<[prim |-> "Xform", obj |-> rec.key,
                         tables |-> IF opt
                                    THEN <<TimeTable("xformOp:transform", rec.timeSamples)>>
                                    ELSE <<>>]>>
                          \o printObjects(map, rec.children, opt)
                          \o printMeshes(rec)
                 ELSE printSkinnedObject(rec)
         IN this \o printObjects(map, Tail(keys), opt)

\* A scene: every object has a type, and a parent among the objects before
\* it (the hierarchy is acyclic).
InitObjects ==
    /\ objType \in [ObjIds -> ObjTypes]
    /\ objParent \in {f \in [ObjIds -> {NoObject} \cup ObjIds] : \A o \in ObjIds : f[o] < o}
    /\ callerAnimated \in BOOLEAN
    /\ exportMaterialsOpt \in BOOLEAN
    /\ animated = callerAnimated
    /\ frame_current = 0
    /\ startTimeCode = 1
    /\ endTimeCode = MaxFrame
    /\ opc = "scan"
    /\ scanned = <<>>
    /\ objMap = <<>>
    /\ objects = <<>>
    /\ document = <<>>

\* The body of exportObjects' first loop for the next object of objs; the
\* selection lists every object at most once, in any order.
ScanObject ==
    /\ opc = "scan"
    /\ \E o \in ObjIds \ Range(scanned) :
          /\ scanned' = Append(scanned, o)
          /\ objMap' = ScanBody(objMap, o, animated)
          /\ animated' = IF objType[o] = "MESH" THEN AnimatedAfter(o, animated)
                         ELSE animated
    /\ UNCHANGED <<frame_current, startTimeCode, endTimeCode, opc, objects, document>>
    /\ OnlyObjects

\* The rest of exportObjects once objs is exhausted: the linking loop and
\* the list of roots.  (export_usdz never passes an empty selection.)
LinkObjects ==
    /\ opc = "scan"
    /\ Len(scanned) > 0
    /\ LET linked == LinkChildren(objMap, 1)
       IN /\ objMap' = linked.map
          /\ objects' = Roots(linked.map)
          /\ opc' = IF linked.raised = None THEN "linked" ELSE "raised"
    /\ UNCHANGED <<hostVars, scanned, document>>
    /\ OnlyObjects

\* A part of the document that is no prim of an object.
DocumentPart(kind) == [prim |-> kind, obj |-> NoObject, tables |-> <<>>]

\* printTimeCodes(options): the block of the three time codes.
printTimeCodes == <<DocumentPart("timeCodes")>>

\* printMaterials(materials, options): the Materials collection.
printMaterials(mats, opt) ==
    IF opt /\ Len(mats) > 0 THEN <<DocumentPart("Materials")>> ELSE <<>>

\* writeUSDA: the header, the time codes when options['animated'] is set,
\* the object forest, the materials.
WriteObjects ==
    /\ opc = "linked"
    /\ document' = <<DocumentPart("#usda 1.0")>>
                       \o (IF animated THEN printTimeCodes ELSE <<>>)
                       \o printObjects(objMap, objects, animated)
                       \o printMaterials(materials, exportMaterialsOpt)
    /\ opc' = "written"
    /\ UNCHANGED <<hostVars, scanned, objMap, objects>>
    /\ OnlyObjects

NextObjects ==
    \/ ScanObject
    \/ LinkObjects
    \/ WriteObjects

(***************************************************************************)
(* exportMaterials, and the material names of the mesh records.  A name is *)
(* a sequence of pieces of text; the piece "." is the character '.'.       *)
(***************************************************************************)
MaxSlots == 2

\* The material datablocks of the scene, by name (the host keeps names
\* unique).  "M.1" and "M_1" are different materials.
MatNames == {<<"M">>, <<"M", ".", "1">>, <<"M", "_", "1">>}

\* An empty material slot (None); also "no file" for a map channel.
NoMaterial == <<>>

NoFile == <<>>

defaultMaterialName == <<"DefaultMaterial">>

\* name.replace('.', '_')
Sanitize(name) == [i \in 1..Len(name) |-> IF name[i] = "." THEN "_" ELSE name[i]]

\* What exportMaterial reads of a material: whether it uses nodes, the
\* shader linked to its output, and whether an image feeds its colour.  The
\* other map channels (normal, metallic, roughness) are exported by the same
\* exportInputImage as the colour; the model follows the colour map.
MatKinds == {"INTERNAL", "BSDF_PRINCIPLED", "BSDF_DIFFUSE", "NODE_OTHER"}

MatAttrs == [kind : MatKinds, colorTex : BOOLEAN]

\* A mesh-typed or other object as exportMaterials and exportMeshes see it.
MaterialObjects ==
    [type : {"MESH"}, slots : SeqsUpTo(MatNames \cup {NoMaterial}, MaxSlots), hasUV : BOOLEAN]
        \cup [type : {"EMPTY"}, slots : {<<>>}, hasUV : {FALSE}]

\* getDefaultMaterial(); raw is the material the record was made from.
getDefaultMaterial ==
    [name |-> defaultMaterialName, raw |-> NoMaterial, channels |-> "default",
     colorMap |-> NoFile, normalMap |-> NoFile, occlusionMap |-> NoFile]

\* exportInternalMaterial(mat, options): the record's name and its file
\* names are built from the sanitized name.
exportInternalMaterial(mat, attrs) ==
    [getDefaultMaterial EXCEPT
        !.name = Sanitize(mat),
        !.raw = mat,
        !.channels = "custom",
        !.colorMap = IF attrs.colorTex THEN Sanitize(mat) \o <<"_color.png">> ELSE NoFile]

\* exportPrincipledBSDF / exportDiffuseBSDF(node, material.name, options)
exportBSDF(mat, attrs) ==
    [getDefaultMaterial EXCEPT
        !.name = mat,
        !.raw = mat,
        !.channels = "custom",
        !.colorMap = IF attrs.colorTex THEN mat \o <<"_color.png">> ELSE NoFile]

\* exportCyclesMaterial(material, options): mat['name'] = material.name
exportCyclesMaterial(mat, attrs) ==
    LET rec == IF attrs.kind \in {"BSDF_PRINCIPLED", "BSDF_DIFFUSE"}
               THEN exportBSDF(mat, attrs)
               ELSE [getDefaultMaterial EXCEPT !.raw = mat]
    IN [rec EXCEPT !.name = mat]

\* exportMaterial(mat, options)
exportMaterial(mat, attrs) ==
    IF mat # NoMaterial
    THEN IF attrs.kind # "INTERNAL" THEN exportCyclesMaterial(mat, attrs)
         ELSE exportInternalMaterial(mat, attrs)
    ELSE getDefaultMaterial

\* bakeAO(obj, file, options): the file, or None for a mesh without UVs.
bakeAO(obj, file) == IF obj.hasUV THEN file ELSE NoFile

\* name = mat.name.replace('.', '_'): the key a material is recorded under.
DedupKeyRaw(mat) == mat

DedupKey(mat) == Sanitize(mat)

\* if not name in materialNames: ...
IsNewName(name, names) == name \notin names

RECURSIVE ScanSlots(_, _, _, _, _)
\* for mat in obj.data.materials: a material that is not None and whose
\* sanitized name is new is recorded and exported, with the object's aoMap.
\* attrs gives what exportMaterial reads of the material exported under a
\* sanitized name.
ScanSlots(st, slots, i, attrs, aoMap) ==
    IF i > Len(slots) THEN st
    ELSE LET mat == slots[i]
             name == DedupKey(mat)
         IN IF mat # NoMaterial /\ IsNewName(name, st.names)
            THEN ScanSlots([names |-> st.names \cup {name},
                            materials |-> Append(st.materials,
                                [exportMaterial(mat, attrs[name]) EXCEPT !.occlusionMap = aoMap])],
                           slots, i + 1, attrs, aoMap)
            ELSE ScanSlots(st, slots, i + 1, attrs, aoMap)

\* One iteration of "for obj in objs" in exportMaterials.  With bakeAO on,
\* obj.data.materials[0].name is read first: an empty first slot is an
\* AttributeError.
ScanMaterialsBody(st, obj, attrs, bake) ==
    IF obj.type = "MESH" /\ Len(obj.slots) > 0
    THEN IF bake /\ obj.slots[1] = NoMaterial
         THEN [raised |-> "AttributeError", names |-> st.names, materials |-> st.materials]
         ELSE LET aoMap == IF bake
                           THEN bakeAO(obj, Sanitize(obj.slots[1]) \o <<"_ao.png">>)
                           ELSE NoFile
                  out == ScanSlots(st, obj.slots, 1, attrs, aoMap)
              IN [raised |-> None, names |-> out.names, materials |-> out.materials]
    ELSE [raised |-> None, names |-> st.names, materials |-> st.materials]

\* getObjectMaterialName(obj) for an object with the given slots.
getObjectMaterialName(slots) ==
    IF Len(slots) > 0 /\ slots[1] # NoMaterial THEN Sanitize(slots[1])
    ELSE defaultMaterialName

\* mesh['material'] of the records exportMeshes returns: one record for an
\* object with at most one slot; with more slots the copy is separated by
\* material, and each part keeps the one material of its faces (used: the
\* slots that faces are assigned to).
MeshMaterialNames(obj, used) ==
    IF obj.type # "MESH" THEN {}
    ELSE IF Len(obj.slots) > 1
    THEN {getObjectMaterialName(<<obj.slots[i]>>) : i \in used}
    ELSE {getObjectMaterialName(obj.slots)}

\* The slots that faces of a mesh with several slots can be assigned to:
\* any slots, at least one.
UsedSlots(slots) ==
    IF Len(slots) > 1 THEN (SUBSET (1..Len(slots))) \ {{}} ELSE {{}}

\* The slots of obj whose material is met for the first time.
RECURSIVE FirstMeetings(_, _, _)
FirstMeetings(order, slots, i) ==
    IF i > Len(slots) THEN order
    ELSE FirstMeetings(IF slots[i] # NoMaterial /\ slots[i] \notin Range(order)
                       THEN Append(order, slots[i]) ELSE order,
                       slots, i + 1)

InitMaterials ==
    /\ bakeAOopt \in BOOLEAN
    /\ mpc = "scan"
    /\ materialNames = {}
    /\ materials = <<>>
    /\ meshMaterials = {}
    /\ encounterOrder = <<>>

\* The sanitized names under which the slots of obj get a material exported.
NewNames(slots, names) ==
    {n \in {DedupKey(slots[i]) : i \in {k \in 1..Len(slots) : slots[k] # NoMaterial}} :
        IsNewName(n, names)}

\* The names of the Materials collection printMaterials writes, and the
\* names the material:binding of the meshes point to (printMesh), when
\* options['exportMaterials'] is set.
MaterialsCollection == {materials[i].name : i \in 1..Len(materials)}

MaterialBindings == meshMaterials

\* The next object of objs: the loop body of exportMaterials, and the mesh
\* records exportObjects made of the same object.  Only the attributes of
\* the materials that get exported are read, and whether the mesh has UVs
\* is read only when baking.
ScanObjectMaterials ==
    /\ mpc = "scan"
    /\ \E obj \in {o \in MaterialObjects : bakeAOopt \/ o.type # "MESH" \/ o.hasUV} :
          \E attrs \in [NewNames(obj.slots, materialNames) -> MatAttrs] :
             /\ LET out == ScanMaterialsBody(
                              [names |-> materialNames, materials |-> materials],
                              obj, attrs, bakeAOopt)
                IN /\ materialNames' = out.names
                   /\ materials' = out.materials
                   /\ mpc' = IF out.raised = None THEN "scan" ELSE "raised"
                   /\ encounterOrder' =
                         IF obj.type = "MESH" /\ out.raised = None
                         THEN FirstMeetings(encounterOrder, obj.slots, 1)
                         ELSE encounterOrder
             /\ \E used \in UsedSlots(obj.slots) :
                   meshMaterials' = meshMaterials \cup MeshMaterialNames(obj, used)
    /\ UNCHANGED bakeAOopt
    /\ OnlyMaterials

\* The end of exportMaterials: the default record when the list is empty.
ReturnMaterials ==
    /\ mpc = "scan"
    /\ materials' = IF Len(materials) = 0 THEN Append(materials, getDefaultMaterial)
                    ELSE materials
    /\ mpc' = "returned"
    /\ UNCHANGED <<bakeAOopt, materialNames, meshMaterials, encounterOrder>>
    /\ OnlyMaterials

NextMaterials ==
    \/ ScanObjectMaterials
    \/ ReturnMaterials

(***************************************************************************)
(* exportMeshes: the mesh records of one object.  Indices are 0-based as   *)
(* in the code; a normal, a UV and a point are each one exact value.       *)
(***************************************************************************)
MaxPolys == 2

\* mesh.vertices[i].normal for the four vertices of the mesh.
VertexNormalLayouts ==
    { <<"nx", "nx", "nx", "nx">>,
      <<"nx", "ny", "nz", "nx">>,
      <<"nz", "ny", "ny", "nx">> }

\* poly.normal; "nx" is also the normal of a vertex.
FaceNormals == {"nx", "nw"}

\* poly.vertices: two triangles and a quad over the four vertices.
FaceShapes == { <<0, 1, 2>>, <<2, 1, 3>>, <<0, 1, 2, 3>> }

\* The UVs of the corners of one face of n corners.
UVLayouts(n) ==
    { [c \in 1..n |-> <<"ua", "ub", "uc", "ua">>[c]],
      [c \in 1..n |-> <<"ub", "ub", "ua", "ud">>[c]] }

\* One polygon; with a single material slot every face has material 0.
\* The normal of a smooth face is never read, so it takes one value only.
PolyChoices(multi) ==
    UNION { { [vertices |-> shape, use_smooth |-> smooth, normal |-> normal,
               material_index |-> m, uv |-> uv] :
                 normal \in (IF smooth THEN {"nw"} ELSE FaceNormals),
                 m \in (IF multi THEN {0, 1} ELSE {0}),
                 uv \in UVLayouts(Len(shape)) } :
            shape \in FaceShapes, smooth \in BOOLEAN }

RECURSIVE SumSeq(_)
SumSeq(s) == IF s = <<>> THEN 0 ELSE Head(s) + SumSeq(Tail(s))

RECURSIVE FlattenSeq(_)
FlattenSeq(ss) == IF ss = <<>> THEN <<>> ELSE Head(ss) \o FlattenSeq(Tail(ss))

\* [x] * n
Repeat(x, n) == [i \in 1..n |-> x]

\* The polygons laid out over the loops of the mesh: polygon p owns the
\* loops loop_start .. loop_start + loop_total - 1.
LayOut(polys) ==
    [p \in 1..Len(polys) |->
        [vertices |-> polys[p].vertices,
         use_smooth |-> polys[p].use_smooth,
         normal |-> polys[p].normal,
         material_index |-> polys[p].material_index,
         loop_start |-> SumSeq([q \in 1..(p - 1) |-> Len(polys[q].vertices)]),
         loop_total |-> Len(polys[p].vertices)]]

\* A mesh: vertices, polygons and the data of the active UV layer, one
\* entry per loop.
MeshOf(vertices, polys) ==
    [vertices |-> vertices,
     polygons |-> LayOut(polys),
     uv_data |-> FlattenSeq([p \in 1..Len(polys) |-> polys[p].uv])]

\* The UVs of the loops of a polygon.
LoopUVs(mesh, poly) ==
    SubSeq(mesh.uv_data, poly.loop_start + 1, poly.loop_start + poly.loop_total)

\* The vertices no polygon uses.
LooseVertices(mesh) ==
    {v \in 0..(Len(mesh.vertices) - 1) :
        \A p \in 1..Len(mesh.polygons) : v \notin Range(mesh.polygons[p].vertices)}

\* The part of a mesh that holds the given polygons: the vertices they use
\* (and the loose ones, for the part that stays in the original object),
\* renumbered in their old order.
SubMesh(mesh, polys, keepLoose) ==
    LET used == UNION {Range(polys[p].vertices) : p \in 1..Len(polys)}
                   \cup (IF keepLoose THEN LooseVertices(mesh) ELSE {})
        rank(v) == Cardinality({u \in used : u < v})
        old(k) == CHOOSE v \in used : rank(v) = k - 1
    IN MeshOf([k \in 1..Cardinality(used) |-> mesh.vertices[old(k) + 1]],
              [p \in 1..Len(polys) |->
                  [vertices |-> [c \in 1..Len(polys[p].vertices) |->
                                    rank(polys[p].vertices[c])],
                   use_smooth |-> polys[p].use_smooth,
                   normal |-> polys[p].normal,
                   material_index |-> polys[p].material_index,
                   uv |-> LoopUVs(mesh, polys[p])]])

\* x in list
InList(list, x) == \E i \in 1..Len(list) : list[i] = x

\* list.index(x)
ListIndex(list, x) ==
    (CHOOSE i \in 1..Len(list) :
        list[i] = x /\ \A j \in 1..(i - 1) : list[j] # x) - 1

\* The material indices of the faces, in the order the faces first use them.
RECURSIVE MaterialsInUse(_, _, _)
MaterialsInUse(seen, polys, p) ==
    IF p > Len(polys) THEN seen
    ELSE MaterialsInUse(IF InList(seen, polys[p].material_index) THEN seen
                        ELSE Append(seen, polys[p].material_index),
                        polys, p + 1)

\* bpy.ops.mesh.separate(type='MATERIAL') and the selection after it: one
\* object per material in use; a mesh with no face or with one material in
\* use stays whole.
separate(mesh) ==
    LET mats == MaterialsInUse(<<>>, mesh.polygons, 1)
    IN IF Len(mats) <= 1 THEN <<mesh>>
       ELSE [k \in 1..Len(mats) |->
                SubMesh(mesh,
                        SelectSeq(mesh.polygons,
                                  LAMBDA poly : poly.material_index = mats[k]),
                        k = Len(mats))]

getFaceVertexCounts(mesh) ==
    [p \in 1..Len(mesh.polygons) |-> Len(mesh.polygons[p].vertices)]

getFaceVertexIndices(mesh) ==
    FlattenSeq([p \in 1..Len(mesh.polygons) |-> mesh.polygons[p].vertices])

getVertexPoints(mesh) == [v \in 1..Len(mesh.vertices) |-> mesh.vertices[v].co]

\* The if/else of the two extractions around one value: the index of the
\* value is added count times, and the value itself when it is new.  acc is
\* the pair (indices, values).
IndexValue(acc, value, count) ==
    IF InList(acc[2], value)
    THEN <<acc[1] \o Repeat(ListIndex(acc[2], value), count), acc[2]>>
    ELSE <<acc[1] \o Repeat(Len(acc[2]), count), Append(acc[2], value)>>

\* for i in poly.vertices, from the k-th on.
RECURSIVE IndexSmooth(_, _, _, _)
IndexSmooth(acc, mesh, vs, k) ==
    IF k > Len(vs) THEN acc
    ELSE IndexSmooth(IndexValue(acc, mesh.vertices[vs[k] + 1].normal, 1),
                     mesh, vs, k + 1)

\* getIndexedNormals with a flat face adding one index, not one per corner.
RECURSIVE IndexPolygonsOncePerFace(_, _, _)
IndexPolygonsOncePerFace(acc, mesh, p) ==
    IF p > Len(mesh.polygons) THEN acc
    ELSE LET poly == mesh.polygons[p]
         IN IndexPolygonsOncePerFace(
                IF poly.use_smooth THEN IndexSmooth(acc, mesh, poly.vertices, 1)
                ELSE IndexValue(acc, poly.normal, 1),
                mesh, p + 1)

getIndexedNormalsOncePerFace(mesh) ==
    IndexPolygonsOncePerFace(<< <<>>, <<>> >>, mesh, 1)

\* for poly in mesh.polygons, from the p-th on.
RECURSIVE IndexPolygons(_, _, _)
IndexPolygons(acc, mesh, p) ==
    IF p > Len(mesh.polygons) THEN acc
    ELSE LET poly == mesh.polygons[p]
         IN IndexPolygons(
                IF poly.use_smooth THEN IndexSmooth(acc, mesh, poly.vertices, 1)
                ELSE IndexValue(acc, poly.normal, Len(poly.vertices)),
                mesh, p + 1)

getIndexedNormals(mesh) == IndexPolygons(<< <<>>, <<>> >>, mesh, 1)

\* getIndexedUVs without the test "uv in uvs": every loop adds its value.
getIndexedUVsNoDedup(mesh) ==
    <<[k \in 1..Len(mesh.uv_data) |-> k - 1], mesh.uv_data>>

\* for point in map.data, from the k-th on.
RECURSIVE IndexUVs(_, _, _)
IndexUVs(acc, data, k) ==
    IF k > Len(data) THEN acc
    ELSE IndexUVs(IndexValue(acc, data[k], 1), data, k + 1)

getIndexedUVs(mesh) == IndexUVs(<< <<>>, <<>> >>, mesh.uv_data, 1)

\* The body of exportMeshes' loop: the record of one object of objs.
MeshRecord(mesh, multi) ==
    LET indexedNormals == getIndexedNormals(mesh)
        indexedUVs == getIndexedUVs(mesh)
    IN [name |-> IF multi THEN "name_material" ELSE "name",
        faceVertexCounts |-> getFaceVertexCounts(mesh),
        faceVertexIndices |-> getFaceVertexIndices(mesh),
        points |-> getVertexPoints(mesh),
        normalIndices |-> indexedNormals[1],
        normals |-> indexedNormals[2],
        uvIndices |-> indexedUVs[1],
        uvs |-> indexedUVs[2]]

\* The value of every corner of the mesh, in loop order: the normal the
\* face shows at the corner, and the UV of the corner.
CornerNormals(mesh) ==
    FlattenSeq([p \in 1..Len(mesh.polygons) |->
        LET poly == mesh.polygons[p]
        IN [c \in 1..Len(poly.vertices) |->
               IF poly.use_smooth THEN mesh.vertices[poly.vertices[c] + 1].normal
               ELSE poly.normal]])

CornerUVs(mesh) == mesh.uv_data

\* A mesh whose corners carry exactly the given UVs, in order.
UVInput(V) == [vertices |-> <<>>, polygons |-> <<>>, uv_data |-> V]

\* A mesh whose corners carry exactly the given normals, in order: one
\* smooth face over vertices with these normals, or one flat one-corner
\* face per normal.
NormalInput(V, flat) ==
    [vertices |-> [i \in 1..Len(V) |-> [co |-> i - 1, normal |-> V[i]]],
     polygons |->
        IF flat
        THEN [i \in 1..Len(V) |->
                 [vertices |-> <<i - 1>>, use_smooth |-> FALSE, normal |-> V[i],
                  material_index |-> 0, loop_start |-> i - 1, loop_total |-> 1]]
        ELSE IF V = <<>> THEN <<>>
        ELSE << [vertices |-> [i \in 1..Len(V) |-> i - 1], use_smooth |-> TRUE,
                 normal |-> V[1], material_index |-> 0, loop_start |-> 0,
                 loop_total |-> Len(V)] >>,
     uv_data |-> <<>>]

\* The copy of the object exportMeshes works on, once it has a UV map.
InitMesh ==
    /\ multiMat \in BOOLEAN
    /\ \E layout \in VertexNormalLayouts, n \in 0..MaxPolys :
          \E polys \in [1..n -> PolyChoices(multiMat)] :
             meshData = MeshOf([v \in 1..4 |-> [co |-> v - 1, normal |-> layout[v]]],
                               polys)
    /\ gpc = "export"
    /\ pieces = <<>>
    /\ meshes = <<>>
    /\ reUVs = <<>>
    /\ reNormals = <<>>

\* exportMeshes from the separation on: objs and the record of each.
ExportMeshes ==
    /\ gpc = "export"
    /\ LET objsData == IF multiMat THEN separate(meshData) ELSE <<meshData>>
       IN /\ pieces' = objsData
          /\ meshes' = [k \in 1..Len(objsData) |-> MeshRecord(objsData[k], multiMat)]
    /\ gpc' = "exported"
    /\ UNCHANGED <<meshData, multiMat, reUVs, reNormals>>
    /\ OnlyMesh

\* The two extractions run again, on meshes whose corners carry the values
\* the first run returned.
ExtractAgain ==
    /\ gpc = "exported"
    /\ reUVs' = [k \in 1..Len(meshes) |-> getIndexedUVs(UVInput(meshes[k].uvs))]
    /\ \E flat \in BOOLEAN :
          reNormals' = [k \in 1..Len(meshes) |->
                           getIndexedNormals(NormalInput(meshes[k].normals, flat))]
    /\ gpc' = "reextracted"
    /\ UNCHANGED <<meshData, multiMat, pieces, meshes>>
    /\ OnlyMesh

NextMesh ==
    \/ ExportMeshes
    \/ ExtractAgain

(***************************************************************************)
(* exportJointTokens: the joint paths of the bones of an armature.  A name *)
(* is a sequence of pieces of text; "." and "/" are pieces of their own.   *)
(***************************************************************************)
MaxBones == 3

BoneNames ==
    { <<"root">>, <<"mid">>, <<"tip">>, <<"arm", ".", "L">>, <<"a", "/", "b">> }

\* bone.parent followed k times.
RECURSIVE ParentPow(_, _, _)
ParentPow(bs, b, k) ==
    IF k = 0 \/ b = NoObject THEN b ELSE ParentPow(bs, bs[b].parent, k - 1)

\* No bone is its own ancestor.
IsAcyclic(bs) == \A b \in 1..Len(bs) : ParentPow(bs, b, Len(bs)) = NoObject

\* The number of ancestors of a bone.
Depth(bs, b) == Cardinality({k \in 1..Len(bs) : ParentPow(bs, b, k) # NoObject})

RECURSIVE getJointToken(_, _)
getJointToken(bs, b) ==
    LET name == Sanitize(bs[b].name)
    IN IF bs[b].parent # NoObject
       THEN getJointToken(bs, bs[b].parent) \o <<"/">> \o name
       ELSE name

exportJointTokens(bs) == [b \in 1..Len(bs) |-> getJointToken(bs, b)]

\* The pieces of a token as text: a name is split at every '/' in it.
PathSegments(token) == Cardinality({i \in 1..Len(token) : token[i] = "/"}) + 1

\* An armature: bones with distinct names and an acyclic parent relation.
InitJoints ==
    /\ \E n \in 0..MaxBones :
          \E names \in [1..n -> BoneNames], parents \in [1..n -> {NoObject} \cup 1..n] :
             /\ IsInjective(names)
             /\ bones = [b \in 1..n |-> [name |-> names[b], parent |-> parents[b]]]
             /\ IsAcyclic(bones)
    /\ jpc = "call"
    /\ jointTokens = <<>>

ExportJointTokens ==
    /\ jpc = "call"
    /\ jointTokens' = exportJointTokens(bones)
    /\ jpc' = "returned"
    /\ UNCHANGED bones
    /\ OnlyJoints

NextJoints == ExportJointTokens

(***************************************************************************)
(* printTuple: '%.6g' % round(f, 6) for every component, joined by ', '.   *)
(* A number is m * 10^e with an integer m; a literal is the number its     *)
(* text spells, as the digits without trailing zeros and the power of ten. *)
(***************************************************************************)
MaxTupleLen == 2

\* The components a tuple is made of: zero, exact short decimals, numbers
\* with more than six significant digits, small and large magnitudes.
FloatValues ==
    { [m |-> 0, e |-> 0], [m |-> 1, e |-> 0], [m |-> 5, e |-> -1],
      [m |-> -225, e |-> -2], [m |-> 123456, e |-> 0], [m |-> 999999, e |-> -3],
      [m |-> 1000004, e |-> -6], [m |-> 12345678, e |-> -3],
      [m |-> 1000004, e |-> 0], [m |-> 4, e |-> -7], [m |-> 14, e |-> -7],
      [m |-> -3, e |-> -8] }

RECURSIVE Pow10(_)
Pow10(k) == IF k = 0 THEN 1 ELSE 10 * Pow10(k - 1)

Abs(x) == IF x < 0 THEN -x ELSE x

\* n / d rounded to the nearest integer, a tie to the even one.
RoundHalfEven(n, d) ==
    LET q == Abs(n) \div d
        r == Abs(n) % d
        up == IF 2 * r > d \/ (2 * r = d /\ q % 2 = 1) THEN q + 1 ELSE q
    IN IF n < 0 THEN -up ELSE up

\* round(f, 6): six digits after the decimal point.
round6(f) ==
    IF f.e >= -6 THEN f
    ELSE [m |-> RoundHalfEven(f.m, Pow10(-6 - f.e)), e |-> -6]

RECURSIVE NumDigits(_)
NumDigits(n) == IF n < 10 THEN 1 ELSE 1 + NumDigits(n \div 10)

\* '%g' drops the trailing zeros of the digits.
RECURSIVE StripZeros(_)
StripZeros(l) ==
    IF l.mantissa = 0 THEN [mantissa |-> 0, exponent |-> 0]
    ELSE IF Abs(l.mantissa) % 10 = 0
    THEN StripZeros([mantissa |-> (IF l.mantissa < 0 THEN -1 ELSE 1)
                                     * (Abs(l.mantissa) \div 10),
                     exponent |-> l.exponent + 1])
    ELSE l

\* '%.6g' % f: at most six significant digits.
Format6g(f) ==
    LET drop == NumDigits(Abs(f.m)) - 6
    IN StripZeros(IF drop > 0
                  THEN [mantissa |-> RoundHalfEven(f.m, Pow10(drop)),
                        exponent |-> f.e + drop]
                  ELSE [mantissa |-> f.m, exponent |-> f.e])

printTuple(t) == [i \in 1..Len(t) |-> Format6g(round6(t[i]))]

\* The number a reader of the literal gets.
ParseLiteral(l) == [m |-> l.mantissa, e |-> l.exponent]

\* |a - b| <= 1e-6 * |b|
WithinRelativeError(a, b) ==
    LET low == IF a.e < b.e THEN a.e ELSE b.e
        x == a.m * Pow10(a.e - low)
        y == b.m * Pow10(b.e - low)
    IN Abs(x - y) <= Abs(y) \div 1000000

InitFormat ==
    /\ \E n \in 0..MaxTupleLen : tupleIn \in [1..n -> FloatValues]
    /\ tpc = "call"
    /\ literals = <<>>
    /\ parsed = <<>>

PrintTuple ==
    /\ tpc = "call"
    /\ literals' = printTuple(tupleIn)
    /\ tpc' = "printed"
    /\ UNCHANGED <<tupleIn, parsed>>
    /\ OnlyFormat

\* A reader of the document parses the literals of the string.
ParseTuple ==
    /\ tpc = "printed"
    /\ parsed' = [i \in 1..Len(literals) |-> ParseLiteral(literals[i])]
    /\ tpc' = "parsed"
    /\ UNCHANGED <<tupleIn, literals>>
    /\ OnlyFormat

NextFormat ==
    \/ PrintTuple
    \/ ParseTuple

(***************************************************************************)
(* bakeAO: the temporary image 'export_ao', from its creation to its       *)
(* removal.                                                                *)
(***************************************************************************)
MaxUVFaces == 2

\* The image createImage asks for, and the name the host gives a new image
\* when that name is taken.
bakeImageName == "export_ao"

bakeImageNameTaken == "export_ao.001"

\* An image of the user's that a UV face may show before the call.
otherImage == "other"

InitBake ==
    /\ hasUVTexture \in BOOLEAN
    /\ images \in SUBSET {bakeImageName, otherImage}
    /\ \E n \in 0..MaxUVFaces :
          /\ uvFaces \in [1..n -> {None} \cup (images \cap {otherImage})]
          /\ (~hasUVTexture => n = 0)
    /\ img = None
    /\ bpc = "call"
    /\ bakeResult = None

\* bakeAO for an object without UV texture: return None.
BakeWithoutUV ==
    /\ bpc = "call"
    /\ ~hasUVTexture
    /\ bpc' = "returned"
    /\ UNCHANGED <<hasUVTexture, uvFaces, images, img, bakeResult>>
    /\ OnlyBake

\* createImage('export_ao', ...): bpy.ops.image.new registers a new image,
\* under another name when 'export_ao' is taken; bpy.data.images[name] is
\* the image of that name.
createImage ==
    /\ bpc = "call"
    /\ hasUVTexture
    /\ images' = images \cup {IF bakeImageName \in images THEN bakeImageNameTaken
                             ELSE bakeImageName}
    /\ img' = bakeImageName
    /\ bpc' = "created"
    /\ UNCHANGED <<hasUVTexture, uvFaces, bakeResult>>
    /\ OnlyBake

\* for d in obj.data.uv_textures[0].data: d.image = img
AssignImage ==
    /\ bpc = "created"
    /\ uvFaces' = [i \in 1..Len(uvFaces) |-> img]
    /\ bpc' = "assigned"
    /\ UNCHANGED <<hasUVTexture, images, img, bakeResult>>
    /\ OnlyBake

\* bpy.ops.object.bake_image(): the host's bake pass, which may raise.
BakeImage ==
    /\ bpc = "assigned"
    /\ \E ok \in BOOLEAN : bpc' = IF ok THEN "baked" ELSE "raised"
    /\ UNCHANGED <<hasUVTexture, uvFaces, images, img, bakeResult>>
    /\ OnlyBake

\* img.save(), which may raise.
SaveBakedImage ==
    /\ bpc = "baked"
    /\ \E ok \in BOOLEAN : bpc' = IF ok THEN "saved" ELSE "raised"
    /\ UNCHANGED <<hasUVTexture, uvFaces, images, img, bakeResult>>
    /\ OnlyBake

\* The cleanup: d.image = None for every face, bpy.data.images.remove(img),
\* return file.
CleanupBake ==
    /\ bpc = "saved"
    /\ uvFaces' = [i \in 1..Len(uvFaces) |-> None]
    /\ images' = images \ {img}
    /\ bakeResult' = "file"
    /\ bpc' = "returned"
    /\ UNCHANGED <<hasUVTexture, img>>
    /\ OnlyBake

NextBake ==
    \/ BakeWithoutUV
    \/ createImage
    \/ AssignImage
    \/ BakeImage
    \/ SaveBakedImage
    \/ CleanupBake

(***************************************************************************)
(* writeUSDZ: the command line of the archiver.  An argument is a sequence *)
(* of pieces of text, as the names are.                                    *)
(***************************************************************************)
MaxArchMaterials == 2

ArchiveNames == { <<"A">>, <<"B", ".", "1">>, <<"C">> }

\* The records exportMaterials can return under a name: each of the three
\* maps is a file name or None.
ArchiveRecords ==
    { [getDefaultMaterial EXCEPT
          !.name = name, !.raw = name,
          !.colorMap = IF c THEN Sanitize(name) \o <<"_color.png">> ELSE NoFile,
          !.normalMap = IF n THEN Sanitize(name) \o <<"_normal.png">> ELSE NoFile,
          !.occlusionMap = IF o THEN Sanitize(name) \o <<"_ao.png">> ELSE NoFile] :
        name \in ArchiveNames, c \in BOOLEAN, n \in BOOLEAN, o \in BOOLEAN }

usdaFile == <<"tempPath", "fileName", ".usda">>

usdzFile == <<"basePath", "fileName", ".usdz">>

\* mArgs of one material.
MaterialArgs(mat) ==
    (IF mat.colorMap # NoFile THEN << <<"-color_map">>, mat.colorMap >> ELSE <<>>)
        \o (IF mat.normalMap # NoFile THEN << <<"-normal_map">>, mat.normalMap >>
            ELSE <<>>)
        \o (IF mat.occlusionMap # NoFile THEN << <<"-ao_map">>, mat.occlusionMap >>
            ELSE <<>>)

\* The loop body of writeUSDZ with the test len(mArgs) > 0 left out.
GroupOfEveryMaterial(mat) ==
    << <<"-m">>, <<"/Materials/">> \o mat.name >> \o MaterialArgs(mat)

\* The loop body of writeUSDZ: what one material adds to args.
MaterialGroup(mat) ==
    IF Len(MaterialArgs(mat)) > 0
    THEN << <<"-m">>, <<"/Materials/">> \o mat.name >> \o MaterialArgs(mat)
    ELSE <<>>

\* for mat in materials, from the k-th on.
RECURSIVE MaterialGroups(_, _)
MaterialGroups(mats, k) ==
    IF k > Len(mats) THEN <<>>
    ELSE MaterialGroup(mats[k]) \o MaterialGroups(mats, k + 1)

\* args of writeUSDZ.
archiverArgs(mats, opt) ==
    << <<"xcrun">>, <<"usdz_converter">>, usdaFile, usdzFile >>
        \o << <<"-v">> >>
        \o (IF opt THEN MaterialGroups(mats, 1) ELSE <<>>)

\* The records of a list exportMaterials returns have different names.
InitArchive ==
    /\ archExportMaterials \in BOOLEAN
    /\ \E n \in 0..MaxArchMaterials :
          /\ archMaterials \in [1..n -> ArchiveRecords]
          /\ IsInjective([i \in 1..n |-> archMaterials[i].name])
    /\ apc = "call"
    /\ archArgs = <<>>

\* writeUSDZ: subprocess.run(args)
RunArchiver ==
    /\ apc = "call"
    /\ archArgs' = archiverArgs(archMaterials, archExportMaterials)
    /\ apc' = "run"
    /\ UNCHANGED <<archMaterials, archExportMaterials>>
    /\ OnlyArchive

NextArchive == RunArchiver

(***************************************************************************)
(* getVertexWeights, getJointIndices, getJointWeights: the skinning        *)
(* weights of a mesh of two vertices.  A weight is a whole number of       *)
(* units of 1e-7.                                                          *)
(***************************************************************************)
MaxGroups == 5

\* epslon = 0.000001
epslon == 10

\* The elements argument printMesh passes.
jointElements == 4

\* group.weight(i) raises RuntimeError: the vertex is not in the group.
NotInGroup == -1

\* A vertex is not in the group, or has the weight epslon, or a larger one.
WeightValues == {NotInGroup, epslon, 25}

\* weight > epslon, with >= in the place of >.
IsKeptFromEpsilon(w) == w # NotInGroup /\ w >= epslon

\* The try block of getVertexWeights: the pair is appended.
IsKept(w) == w # NotInGroup /\ w > epslon

\* for group in obj.vertex_groups, from the g-th on; group.index is g - 1.
RECURSIVE KeptPairs(_, _)
KeptPairs(row, g) ==
    IF g > Len(row) THEN <<>>
    ELSE (IF IsKept(row[g]) THEN << <<g - 1, row[g]>> >> ELSE <<>>)
            \o KeptPairs(row, g + 1)

NoWeights == [present |-> FALSE, list |-> <<>>]

\* getVertexWeights(obj): None for an object without vertex groups.
getVertexWeights(table, groups) ==
    IF groups > 0
    THEN [present |-> TRUE, list |-> [v \in 1..Len(table) |-> KeptPairs(table[v], 1)]]
    ELSE NoWeights

\* elements*[0] with the first pairs of v[:elements] written over it; part
\* is 1 for the index of a pair and 2 for its weight.
PaddedRow(v, elements, part) ==
    [i \in 1..elements |-> IF i <= Len(v) THEN v[i][part] ELSE 0]

getJointIndices(weights, elements) ==
    FlattenSeq([v \in 1..Len(weights) |-> PaddedRow(weights[v], elements, 1)])

getJointWeights(weights, elements) ==
    FlattenSeq([v \in 1..Len(weights) |-> PaddedRow(weights[v], elements, 2)])

\* The first vertex has any weights; the second vertex is in the first two
\* vertex groups at most.
InitWeights ==
    /\ \E n \in 0..MaxGroups :
          \E first \in [1..n -> WeightValues],
             second \in [1..(IF n < 2 THEN n ELSE 2) -> WeightValues] :
             weightTable = << first,
                              [g \in 1..n |-> IF g <= 2 THEN second[g]
                                              ELSE NotInGroup] >>
    /\ wpc = "call"
    /\ vertexWeights = <<>>
    /\ jointIndices = <<>>
    /\ jointWeights = <<>>

\* exportMeshes: mesh['weights'] = getVertexWeights(obj)
GetVertexWeights ==
    /\ wpc = "call"
    /\ vertexWeights' = getVertexWeights(weightTable, Len(weightTable[1]))
    /\ wpc' = "extracted"
    /\ UNCHANGED <<weightTable, jointIndices, jointWeights>>
    /\ OnlyWeights

\* printMesh: the two arrays, when mesh['weights'] is not None.
PrintJointArrays ==
    /\ wpc = "extracted"
    /\ jointIndices' = IF vertexWeights.present
                       THEN getJointIndices(vertexWeights.list, jointElements)
                       ELSE <<>>
    /\ jointWeights' = IF vertexWeights.present
                       THEN getJointWeights(vertexWeights.list, jointElements)
                       ELSE <<>>
    /\ wpc' = "printed"
    /\ UNCHANGED <<weightTable, vertexWeights>>
    /\ OnlyWeights

NextWeights ==
    \/ GetVertexWeights
    \/ PrintJointArrays

(***************************************************************************)
(* C1: every frame-sampling routine leaves the host's current frame equal  *)
(* to the value it had on entry, on every exit path: after the loop        *)
(* completes and when a host call inside the loop fails.                   *)
(***************************************************************************)
C1_FrameRestoredOnEveryExit ==
    fpc \in {"returned", "raised"} => frame_current = originalFrame

(***************************************************************************)
(* C2: when animation is enabled and the frame range is [s, e], every      *)
(* time-sampled table of the written document (the transform table of      *)
(* every rigid Xform, the rotations, scales and translations of every      *)
(* SkelAnimation) has exactly the frames s, s+1, ..., e in ascending       *)
(* order, also for rigid nodes that are direct children of an armature.    *)
(***************************************************************************)
C2_EveryTableCoversTheRange ==
    (opc = "written" /\ callerAnimated)
        => \A i \in 1..Len(document) :
              \A t \in 1..Len(document[i].tables) :
                 document[i].tables[t].frames = FrameRange(startTimeCode, endTimeCode)

(***************************************************************************)
(* C3: the temporary directory created at the start of exportUSD no longer *)
(* exists when exportUSD is left, on every exit path: after a successful   *)
(* run and when extraction, writeUSDA or writeUSDZ fails with an error.    *)
(***************************************************************************)
C3_TempDirGoneOnEveryExit ==
    ppc \in {"finished", "raised"} => tempDir # "exists"

(***************************************************************************)
(* C4: called with an empty selection or no active object, export_usdz     *)
(* returns {'FINISHED'} without raising and without any output or change   *)
(* of host state, for every value of the filepath argument.                *)
(***************************************************************************)
C4_EmptySelectionReturnsSilently ==
    (ppc # "export_usdz" /\ (Len(selected_objects) = 0 \/ active_object = NoObject))
        => /\ ppc = "finished"
           /\ result = FINISHED
           /\ raised = None
           /\ tempDir = "absent"
           /\ files = {}
           /\ archiverRuns = 0
           /\ ~hostTouched

(***************************************************************************)
(* C5: with material export enabled, the binding </Materials/NAME> of      *)
(* every mesh record names a material of the emitted Materials collection, *)
(* also for selections that mix meshes with and without material slots and *)
(* for node-based materials whose names contain '.'.                       *)
(***************************************************************************)
C5_EveryBindingResolves ==
    mpc = "returned" => \A m \in MaterialBindings : m \in MaterialsCollection

(***************************************************************************)
(* C7: when no object contributes a real material (no mesh, no slots, or   *)
(* only empty slots), exportMaterials returns exactly one record, named    *)
(* "DefaultMaterial", with every channel at its default, occlusionMap      *)
(* included even when AO baking is requested; when a real material is      *)
(* found, no record named "DefaultMaterial" is added.                      *)
(***************************************************************************)
C7_DefaultRecordIffNoRealMaterial ==
    /\ (mpc # "scan" /\ encounterOrder = <<>>)
          => (mpc = "returned" /\ materials = <<getDefaultMaterial>>)
    /\ (mpc = "returned" /\ encounterOrder # <<>>)
          => \A i \in 1..Len(materials) : materials[i].name # defaultMaterialName

(***************************************************************************)
(* C8: the names of the returned records are pairwise distinct after       *)
(* sanitization; of the materials that sanitize to the same name, the      *)
(* first one met in the scan over objects and slots has a record and the   *)
(* later ones have none, whichever objects they belong to.                 *)
(***************************************************************************)
C8_NamesDistinctFirstWins ==
    mpc = "returned" =>
        /\ \A i, j \in 1..Len(materials) :
              Sanitize(materials[i].name) = Sanitize(materials[j].name) => i = j
        /\ \A k \in 1..Len(encounterOrder) :
              (\A j \in 1..(k - 1) :
                    Sanitize(encounterOrder[j]) # Sanitize(encounterOrder[k]))
                <=> (\E i \in 1..Len(materials) : materials[i].raw = encounterOrder[k])

\* Two materials that sanitize to the same name were met, and with them a
\* material of another name: the list was returned.
C8_Witness ==
    /\ mpc = "returned"
    /\ Len(materials) = 2
    /\ \E j, k \in 1..Len(encounterOrder) :
          j < k /\ Sanitize(encounterOrder[j]) = Sanitize(encounterOrder[k])

(***************************************************************************)
(* C6: in every mesh record exportMeshes produces, the face vertex counts  *)
(* sum to the number of face vertex indices, there is one normal index per *)
(* face vertex index, and every normal index, UV index and face vertex     *)
(* index is a position of the normals, the uvs and the points; a mesh with *)
(* no face gets empty topology and index arrays.                           *)
(***************************************************************************)
C6_IndicesInRange ==
    gpc \in {"exported", "reextracted"} =>
        /\ Len(meshes) = Len(pieces)
        /\ \A k \in 1..Len(meshes) :
              LET r == meshes[k]
              IN /\ SumSeq(r.faceVertexCounts) = Len(r.faceVertexIndices)
                 /\ Len(r.normalIndices) = Len(r.faceVertexIndices)
                 /\ \A i \in 1..Len(r.normalIndices) :
                       r.normalIndices[i] \in 0..(Len(r.normals) - 1)
                 /\ \A i \in 1..Len(r.uvIndices) :
                       r.uvIndices[i] \in 0..(Len(r.uvs) - 1)
                 /\ \A i \in 1..Len(r.faceVertexIndices) :
                       r.faceVertexIndices[i] \in 0..(Len(r.points) - 1)
                 /\ pieces[k].polygons = <<>> =>
                       /\ r.faceVertexCounts = <<>>
                       /\ r.faceVertexIndices = <<>>
                       /\ r.normalIndices = <<>>
                       /\ r.uvIndices = <<>>

\* A mesh split into two records, one of them with a flat face whose one
\* normal serves all its corners and with a UV that two corners share.
C6_Witness ==
    /\ gpc = "exported"
    /\ Len(meshes) = 2
    /\ \E k \in 1..2 :
          /\ \E p \in 1..Len(pieces[k].polygons) : ~pieces[k].polygons[p].use_smooth
          /\ Len(meshes[k].normals) < Len(meshes[k].normalIndices)
          /\ Len(meshes[k].uvs) < Len(meshes[k].uvIndices)
          /\ Len(meshes[k].points) < Len(meshData.vertices)

(***************************************************************************)
(* C9: exportJointTokens returns one token per bone, in bone order; the    *)
(* token of a bone without parent is its sanitized name, the token of any  *)
(* other bone is its parent's token, '/', and its sanitized name, so the   *)
(* chain root -> mid -> tip gives "root", "root/mid", "root/mid/tip"; for  *)
(* every acyclic hierarchy the number of path segments of a token is the   *)
(* depth of the bone plus one.                                             *)
(***************************************************************************)
C9_TokenIsPathFromRoot ==
    jpc = "returned" =>
        /\ Len(jointTokens) = Len(bones)
        /\ \A b \in 1..Len(bones) :
              jointTokens[b] =
                 IF bones[b].parent = NoObject THEN Sanitize(bones[b].name)
                 ELSE jointTokens[bones[b].parent] \o <<"/">> \o Sanitize(bones[b].name)
        /\ bones = << [name |-> <<"root">>, parent |-> NoObject],
                      [name |-> <<"mid">>, parent |-> 1],
                      [name |-> <<"tip">>, parent |-> 2] >>
              => jointTokens = << <<"root">>, <<"root", "/", "mid">>,
                                  <<"root", "/", "mid", "/", "tip">> >>
        /\ \A b \in 1..Len(bones) :
              PathSegments(jointTokens[b]) = Depth(bones, b) + 1

(***************************************************************************)
(* C10: extracting the UVs (the normals) again from a mesh whose corners   *)
(* carry the values V of a first extraction, in order, gives V and the     *)
(* index sequence 0..len(V)-1; the values of an extraction are pairwise    *)
(* different, and the value at the k-th index is the value of the k-th     *)
(* corner of the source.                                                   *)
(***************************************************************************)
C10_DeduplicationIsIdempotent ==
    gpc = "reextracted" =>
        \A k \in 1..Len(meshes) :
           LET r == meshes[k]
               cornerUVs == CornerUVs(pieces[k])
               cornerNormals == CornerNormals(pieces[k])
           IN /\ reUVs[k] = <<[i \in 1..Len(r.uvs) |-> i - 1], r.uvs>>
              /\ reNormals[k] = <<[i \in 1..Len(r.normals) |-> i - 1], r.normals>>
              /\ IsInjective(r.uvs)
              /\ IsInjective(r.normals)
              /\ Len(r.uvIndices) = Len(cornerUVs)
              /\ \A c \in 1..Len(cornerUVs) : r.uvs[r.uvIndices[c] + 1] = cornerUVs[c]
              /\ Len(r.normalIndices) = Len(cornerNormals)
              /\ \A c \in 1..Len(cornerNormals) :
                    r.normals[r.normalIndices[c] + 1] = cornerNormals[c]

\* A second extraction from a record whose first extraction merged equal
\* UVs and equal normals and still kept more than one of each.
C10_Witness ==
    /\ gpc = "reextracted"
    /\ \E k \in 1..Len(meshes) :
          /\ Len(meshes[k].uvs) > 1
          /\ Len(meshes[k].uvs) < Len(meshes[k].uvIndices)
          /\ Len(meshes[k].normals) > 1
          /\ Len(meshes[k].normals) < Len(meshes[k].normalIndices)
          /\ Len(reUVs[k][1]) = Len(meshes[k].uvs)
          /\ Len(reNormals[k][1]) = Len(meshes[k].normals)

(***************************************************************************)
(* C11: parsing the literal printTuple(t) produces recovers every          *)
(* component of t within 1e-6 relative error, also components of a         *)
(* magnitude below 1e-6 and components of large magnitude.                 *)
(***************************************************************************)
C11_RoundTripWithinTolerance ==
    tpc = "parsed" =>
        /\ Len(parsed) = Len(tupleIn)
        /\ \A i \in 1..Len(tupleIn) : WithinRelativeError(parsed[i], tupleIn[i])

(***************************************************************************)
(* C12: a record carries time-sampled transforms only if the caller        *)
(* enabled animation export, the node is no armature and no direct child   *)
(* of an armature; with animated = False from the caller no record of      *)
(* exportObjects has time samples, whatever the order of the selection.    *)
(* (A record has samples exactly when exportRootTimeSamples or             *)
(* exportLocalTimeSamples moved the frame cursor for it.)                  *)
(***************************************************************************)
C12_SamplesOnlyWhenEnabled ==
    \A i \in 1..Len(objMap) :
       objMap[i].timeSamples # <<>> =>
           /\ callerAnimated
           /\ objType[objMap[i].key] # "ARMATURE"
           /\ ~ParentIsArmature(objMap[i].key)

(***************************************************************************)
(* C13: the document writeUSDA writes is, in this order, the header        *)
(* '#usda 1.0', the time-code block exactly when the caller enabled        *)
(* animation export, the object forest, and the Materials collection       *)
(* exactly when material export is enabled; when animation is not enabled  *)
(* every rigid Xform has its constant transform and no timeSamples table.  *)
(***************************************************************************)
C13_DocumentLayout ==
    opc = "written" =>
        LET at(kind) == {i \in 1..Len(document) : document[i].prim = kind}
        IN /\ at("#usda 1.0") = {1}
           /\ at("timeCodes") = (IF callerAnimated THEN {2} ELSE {})
           /\ at("Materials") = (IF exportMaterialsOpt THEN {Len(document)} ELSE {})
           /\ ~callerAnimated =>
                 \A i \in at("Xform") : document[i].tables = <<>>

(***************************************************************************)
(* C14: after exportObjects, for every selection order and every acyclic   *)
(* hierarchy, linking does not fail and every parent stored in a record is *)
(* a key of objMap; a record with a parent is exactly once in the children *)
(* of that parent and in no other children list; a record without parent   *)
(* is exactly once among the returned roots, which are in the order of     *)
(* first insertion; every record is reachable from exactly one root.       *)
(***************************************************************************)
Occurrences(q, x) == Cardinality({i \in 1..Len(q) : q[i] = x})

\* The keys reachable from a record over at most n children edges.
RECURSIVE ReachableFrom(_, _, _)
ReachableFrom(map, k, n) ==
    IF n = 0 \/ ~MapHas(map, k) THEN {k}
    ELSE {k} \cup UNION {ReachableFrom(map, c, n - 1) :
                            c \in Range(map[MapIndex(map, k)].children)}

C14_ForestIsWellFormed ==
    /\ opc # "raised"
    /\ opc \in {"linked", "written"} =>
          /\ \A i \in 1..Len(objMap) :
                LET rec == objMap[i]
                IN /\ Occurrences([j \in 1..Len(objMap) |-> objMap[j].key], rec.key) = 1
                   /\ rec.parent # NoObject =>
                         /\ MapHas(objMap, rec.parent)
                         /\ \A j \in 1..Len(objMap) :
                               Occurrences(objMap[j].children, rec.key)
                                  = (IF objMap[j].key = rec.parent THEN 1 ELSE 0)
                         /\ Occurrences(objects, rec.key) = 0
                   /\ rec.parent = NoObject =>
                         /\ Occurrences(objects, rec.key) = 1
                         /\ \A j \in 1..Len(objMap) :
                               Occurrences(objMap[j].children, rec.key) = 0
                   /\ Cardinality({r \in 1..Len(objects) :
                                      rec.key \in ReachableFrom(objMap, objects[r],
                                                                Len(objMap))}) = 1
          /\ \A a, b \in 1..Len(objects) :
                a < b => MapIndex(objMap, objects[a]) < MapIndex(objMap, objects[b])

\* A mesh scanned before its selected parent, whose own parent is not in
\* the selection.
C14_Witness ==
    /\ opc = "linked"
    /\ \E i, j \in 1..Len(scanned) :
          /\ i < j
          /\ objParent[scanned[i]] = scanned[j]
          /\ objParent[scanned[j]] # NoObject
          /\ objParent[scanned[j]] \notin Range(scanned)
          /\ MapHas(objMap, objParent[scanned[j]])

(***************************************************************************)
(* C15: a record is written as SkelRoot iff its skeleton is set, else as   *)
(* Xform; in every record of exportObjects the skeleton is set iff the     *)
(* animation is set, both exactly when the node's parent is an armature,   *)
(* so every SkelAnimation block written has an animation record, and a     *)
(* skinned record has no parent edge in the forest.                        *)
(***************************************************************************)
C15_EncodingFollowsSkeleton ==
    /\ opc \in {"linked", "written"} =>
          \A i \in 1..Len(objMap) :
             LET rec == objMap[i]
             IN /\ rec.skeleton <=> rec.animation.present
                /\ rec.skeleton <=> ParentIsArmature(rec.key)
                /\ rec.skeleton =>
                      /\ rec.parent = NoObject
                      /\ \A j \in 1..Len(objMap) :
                            rec.key \notin Range(objMap[j].children)
    /\ opc = "written" =>
          \A d \in 1..Len(document) :
             document[d].obj # NoObject =>
                LET rec == objMap[MapIndex(objMap, document[d].obj)]
                IN /\ document[d].prim = "SkelRoot" => rec.skeleton
                   /\ document[d].prim = "Xform" => ~rec.skeleton
                   /\ document[d].prim = "SkelAnimation" => rec.animation.present

\* C15 as the code has it: the skeleton and the animation are set exactly
\* in the record exportObject makes of a selected mesh whose parent is an
\* armature; the transform-only record of an ancestor has neither, also
\* when the ancestor's parent is an armature.  Every returned root is
\* written as SkelRoot when its skeleton is set and as Xform otherwise,
\* every SkelAnimation block written has an animation record, and a
\* skinned record has no parent edge in the forest.
C15_SkeletonIffSkinnedMesh ==
    /\ opc \in {"linked", "written"} =>
          \A i \in 1..Len(objMap) :
             LET rec == objMap[i]
             IN /\ rec.skeleton <=> rec.animation.present
                /\ rec.skeleton <=>
                      /\ ParentIsArmature(rec.key)
                      /\ objType[rec.key] = "MESH"
                      /\ rec.key \in Range(scanned)
                /\ rec.skeleton =>
                      /\ rec.parent = NoObject
                      /\ \A j \in 1..Len(objMap) :
                            rec.key \notin Range(objMap[j].children)
    /\ opc = "written" =>
          /\ \A d \in 1..Len(document) :
                document[d].obj # NoObject =>
                   LET rec == objMap[MapIndex(objMap, document[d].obj)]
                   IN /\ document[d].prim = "SkelRoot" => rec.skeleton
                      /\ document[d].prim = "Xform" => ~rec.skeleton
                      /\ document[d].prim = "SkelAnimation" => rec.animation.present
          /\ \A r \in 1..Len(objects) :
                \E d \in 1..Len(document) :
                   /\ document[d].obj = objects[r]
                   /\ document[d].prim =
                         (IF objMap[MapIndex(objMap, objects[r])].skeleton
                          THEN "SkelRoot" ELSE "Xform")

\* A document with a skinned root, its animation block, and a rigid node.
C15_Witness ==
    /\ opc = "written"
    /\ \E a, b, c \in 1..Len(document) :
          /\ document[a].prim = "SkelRoot"
          /\ document[b].prim = "SkelAnimation"
          /\ document[b].obj = document[a].obj
          /\ document[c].prim = "Xform"

(***************************************************************************)
(* C19: every selected mesh object is in the written document: its record  *)
(* and its mesh records are emitted, whatever its place in the hierarchy,  *)
(* also when its parent record is emitted as a skinned SkelRoot.           *)
(***************************************************************************)
C19_EverySelectedMeshIsWritten ==
    opc = "written" =>
        \A o \in Range(scanned) :
           objType[o] = "MESH" =>
               /\ \E d \in 1..Len(document) :
                     document[d].obj = o /\ document[d].prim \in {"Xform", "SkelRoot"}
               /\ \E d \in 1..Len(document) :
                     document[d].obj = o /\ document[d].prim = "Mesh"

(***************************************************************************)
(* C16: after bakeAO returns or fails, the temporary image is no longer    *)
(* registered with the host and no UV face of the object references it,    *)
(* whether or not the bake pass and the image save succeeded.              *)
(***************************************************************************)
C16_BakeImageGoneOnEveryExit ==
    (bpc \in {"returned", "raised"} /\ img # None) =>
        /\ images \cap {bakeImageName, bakeImageNameTaken} = {}
        /\ \A i \in 1..Len(uvFaces) : uvFaces[i] # img

(***************************************************************************)
(* C17: the archiver command is 'xcrun usdz_converter <document path>      *)
(* <archive path> -v', followed, only when material export is enabled, by  *)
(* one group per material record, in list order, that has a colorMap, a    *)
(* normalMap or an occlusionMap; a group is '-m /Materials/<name>' and the *)
(* '-color_map', '-normal_map', '-ao_map' pairs, in that order, of the     *)
(* maps that are set.  A material without map adds nothing.                *)
(***************************************************************************)
C17_ArchiverCommand ==
    apc = "run" =>
        LET hasMap(mat) == mat.colorMap # NoFile \/ mat.normalMap # NoFile
                              \/ mat.occlusionMap # NoFile
            withMaps == IF archExportMaterials THEN SelectSeq(archMaterials, hasMap)
                        ELSE <<>>
            pairs(mat) ==
                FlattenSeq(SelectSeq(<< << <<"-color_map">>, mat.colorMap >>,
                                        << <<"-normal_map">>, mat.normalMap >>,
                                        << <<"-ao_map">>, mat.occlusionMap >> >>,
                                     LAMBDA pair : pair[2] # NoFile))
        IN archArgs =
              << <<"xcrun">>, <<"usdz_converter">>, usdaFile, usdzFile, <<"-v">> >>
                 \o FlattenSeq([k \in 1..Len(withMaps) |->
                                   << <<"-m">>, <<"/Materials/">> \o withMaps[k].name >>
                                      \o pairs(withMaps[k])])

\* A command with the group of a material that has all three maps, after a
\* material that has none.
C17_Witness ==
    /\ apc = "run"
    /\ archExportMaterials
    /\ Len(archMaterials) = 2
    /\ archMaterials[1].colorMap = NoFile
    /\ archMaterials[1].normalMap = NoFile
    /\ archMaterials[1].occlusionMap = NoFile
    /\ Len(archArgs) = 13
    /\ archArgs[6] = <<"-m">>
    /\ archArgs[7] = <<"/Materials/">> \o archMaterials[2].name

(***************************************************************************)
(* C18: for a mesh with vertex groups, getVertexWeights keeps per vertex   *)
(* the (group index, weight) pairs with a weight strictly above 1e-6, in   *)
(* the order of the vertex groups; jointIndices and jointWeights hold 4    *)
(* entries per vertex: the first min(k, 4) kept pairs of the vertex, in    *)
(* that order, and zero in the other places, so both have the length       *)
(* 4 * number of vertices and are aligned with each other.                 *)
(***************************************************************************)
C18_FourWeightsPerVertex ==
    (wpc = "printed" /\ Len(weightTable[1]) > 0) =>
        LET nv == Len(weightTable)
            kept(v) == {g \in 1..Len(weightTable[v]) :
                           weightTable[v][g] # NotInGroup /\ weightTable[v][g] > epslon}
            \* the group of the slot-th kept pair of vertex v
            nth(v, slot) == CHOOSE g \in kept(v) :
                               Cardinality({h \in kept(v) : h < g}) = slot - 1
        IN /\ vertexWeights.present
           /\ Len(vertexWeights.list) = nv
           /\ \A v \in 1..nv :
                 /\ Len(vertexWeights.list[v]) = Cardinality(kept(v))
                 /\ \A s \in 1..Cardinality(kept(v)) :
                       vertexWeights.list[v][s]
                          = <<nth(v, s) - 1, weightTable[v][nth(v, s)]>>
           /\ Len(jointIndices) = 4 * nv
           /\ Len(jointWeights) = 4 * nv
           /\ \A v \in 1..nv, s \in 1..4 :
                 IF s <= Cardinality(kept(v))
                 THEN /\ jointIndices[4 * (v - 1) + s] = nth(v, s) - 1
                      /\ jointWeights[4 * (v - 1) + s] = weightTable[v][nth(v, s)]
                 ELSE /\ jointIndices[4 * (v - 1) + s] = 0
                      /\ jointWeights[4 * (v - 1) + s] = 0

\* One vertex with five kept pairs, of which the fifth is cut, beside a
\* vertex whose weights are all dropped or at epslon.
C18_Witness ==
    /\ wpc = "printed"
    /\ vertexWeights.present
    /\ Len(weightTable[1]) >= 5
    /\ Len(vertexWeights.list[1]) = 5
    /\ Len(vertexWeights.list[2]) = 0
    /\ \E g \in 1..5 : weightTable[2][g] = epslon
    /\ SubSeq(jointIndices, 1, 4) = <<0, 1, 2, 3>>
    /\ SubSeq(jointWeights, 5, 8) = <<0, 0, 0, 0>>

(***************************************************************************)
(* The specifications.                                                     *)
(***************************************************************************)
InitSpecFrames ==
    InitFrames /\ PipeOff /\ ObjectsOff /\ MaterialsOff /\ MeshOff /\
        JointsOff /\ FormatOff /\ BakeOff /\ ArchiveOff /\ WeightsOff

SpecFrames == InitSpecFrames /\ [][NextFrames]_vars

Init ==
    InitPipe /\ HostOff /\ SamplingOff /\ ObjectsOff /\ MaterialsOff /\
        MeshOff /\ JointsOff /\ FormatOff /\ BakeOff /\ ArchiveOff /\
        WeightsOff

\* The list exportMaterials returns for objects without materials: the
\* default record.
MaterialsReturned ==
    /\ bakeAOopt = FALSE
    /\ mpc = "returned"
    /\ materialNames = {}
    /\ materials = <<getDefaultMaterial>>
    /\ meshMaterials = {}
    /\ encounterOrder = <<>>

InitSpecObjects ==
    InitObjects /\ SamplingOff /\ PipeOff /\ MaterialsReturned /\ MeshOff /\
        JointsOff /\ FormatOff /\ BakeOff /\ ArchiveOff /\ WeightsOff

InitSpecMaterials ==
    InitMaterials /\ HostOff /\ SamplingOff /\ PipeOff /\ ObjectsOff /\
        MeshOff /\ JointsOff /\ FormatOff /\ BakeOff /\ ArchiveOff /\
        WeightsOff

InitSpecMesh ==
    InitMesh /\ HostOff /\ SamplingOff /\ PipeOff /\ ObjectsOff /\
        MaterialsOff /\ JointsOff /\ FormatOff /\ BakeOff /\ ArchiveOff /\
        WeightsOff

SpecMesh == InitSpecMesh /\ [][NextMesh]_vars

InitSpecJoints ==
    InitJoints /\ HostOff /\ SamplingOff /\ PipeOff /\ ObjectsOff /\
        MaterialsOff /\ MeshOff /\ FormatOff /\ BakeOff /\ ArchiveOff /\
        WeightsOff

SpecJoints == InitSpecJoints /\ [][NextJoints]_vars

InitSpecFormat ==
    InitFormat /\ HostOff /\ SamplingOff /\ PipeOff /\ ObjectsOff /\
        MaterialsOff /\ MeshOff /\ JointsOff /\ BakeOff /\ ArchiveOff /\
        WeightsOff

SpecFormat == InitSpecFormat /\ [][NextFormat]_vars

InitSpecBake ==
    InitBake /\ HostOff /\ SamplingOff /\ PipeOff /\ ObjectsOff /\
        MaterialsOff /\ MeshOff /\ JointsOff /\ FormatOff /\ ArchiveOff /\
        WeightsOff

SpecBake == InitSpecBake /\ [][NextBake]_vars

InitSpecArchive ==
    InitArchive /\ HostOff /\ SamplingOff /\ PipeOff /\ ObjectsOff /\
        MaterialsOff /\ MeshOff /\ JointsOff /\ FormatOff /\ BakeOff /\
        WeightsOff

SpecArchive == InitSpecArchive /\ [][NextArchive]_vars

InitSpecWeights ==
    InitWeights /\ HostOff /\ SamplingOff /\ PipeOff /\ ObjectsOff /\
        MaterialsOff /\ MeshOff /\ JointsOff /\ FormatOff /\ BakeOff /\
        ArchiveOff

SpecWeights == InitSpecWeights /\ [][NextWeights]_vars

SpecMaterials == InitSpecMaterials /\ [][NextMaterials]_vars

SpecObjects == InitSpecObjects /\ [][NextObjects]_vars

Next == NextPipe

Spec == Init /\ [][Next]_vars

====
